---- MODULE Spec2Model ----
(***************************************************************************)
(* Spaced-repetition scheduling engine of german-phrase-game.              *)
(*                                                                         *)
(* The module models                                                       *)
(*   - the pure SM-2 functions of server/learning/srs.ts,                  *)
(*   - the userProgress and dailyTasks tables of drizzle/schema.ts,        *)
(*   - the three request handlers that score a review                      *)
(*       submitReview      (server/routers/learning.ts)                    *)
(*       recordAnswer      (server/routers.ts, learning.recordAnswer)      *)
(*       completeDailyTask (server/taskScheduler.ts, tasks.completeTask)   *)
(*     with one step per awaited database statement, so that two requests  *)
(*     in flight interleave exactly where the Node event loop lets them.   *)
(*                                                                         *)
(* Time is counted in ticks, TicksPerDay ticks to a day.                   *)
(***************************************************************************)
EXTENDS Integers, Sequences, FiniteSets, TLC

VARIABLES
    progress,   \* userProgress table: sequence of rows, the row id is its index
    tasks,      \* dailyTasks table: sequence of rows, the row id is its index
    now,        \* the wall clock, in ticks
    call,       \* per request slot: the handler in flight, its arguments and locals
    result,     \* per request slot: what the last finished handler returned or threw
    ops,        \* number of handler invocations started so far
    lastScored, \* history: per progress row, the last scored review written to it
    ctHist,     \* history: per (user, phrase) the completeTask calls that have returned
    fn,         \* the pure-function harness: arguments and result of one call
    mode,       \* the scenario explored: how many requests are made, and whether they overlap
    sessions,   \* studySessions table: sequence of rows
    analytics   \* learningAnalytics table: per user (userId is unique) the row, if any

vars == <<progress, tasks, now, call, result, ops, lastScored, ctHist, fn, mode, sessions, analytics>>

----------------------------------------------------------------------------
(* Bounds of the model *)

MaxOps == 3          \* handler invocations per behaviour, requests interleaved
MaxSeqOps == 3       \* handler invocations per behaviour, one request at a time
MaxClockOps == 2     \* handler invocations per behaviour, with the clock running
MaxNow == 1          \* last tick the clock reaches
MaxFnInterval == 9   \* largest prior interval fed to the pure function
MaxFnReps == 5       \* largest prior repetitions fed to the pure function
MaxTenantOps == 3    \* handler invocations per behaviour, two users
MaxOutageOps == 2    \* handler invocations per behaviour, store available or not
MaxDueOps == 2       \* handler invocations per behaviour, two phrases coming due
MaxDueNow == 4       \* last tick the clock reaches while phrases come due
MaxMasteryReps == 11 \* largest repetitions fed to calculateMasteryPercentage
MaxAdaptiveOps == 3  \* handler invocations per behaviour, analytics handlers included
MaxDueCount == 13    \* largest number of due words fed to generateDailyMissions

(* Program constants *)

TicksPerDay == 2
MinEaseFactor == 1300
DefaultEaseFactor == 2500
DefaultInterval == 1
DefaultRepetitions == 0

\* the users and phrases a scenario draws from (mode.users, mode.phrases)
Users == {"u1", "u2"}
Phrases == {"p1", "p2"}
Procs == {"r1", "r2"}

\* quality values a client can send; -1 and 6 are out of range
Qualities == -1 .. 6

NoTime == -1

----------------------------------------------------------------------------
(* server/learning/srs.ts *)

\* Math.round on a non-negative rational num/den (round half up)
Round(num, den) == (2 * num + den) \div (2 * den)

Min(a, b) == IF a <= b THEN a ELSE b

\* (0.1 - (5 - q) * (0.08 + (5 - q) * 0.02)) * 1000, for integer q:
\* 100 - (5-q)*(80 + (5-q)*20)
EaseDelta(quality) == 100 - (5 - quality) * (80 + (5 - quality) * 20)

\* mutant: the floor of 1.3 is not applied
M_ClampEase(ef) == ef

ClampEase(ef) == IF ef < MinEaseFactor THEN MinEaseFactor ELSE ef

QualityInRange(quality) == ~(quality < 0 \/ quality > 5)

\* mutant: the failure threshold is off by one (quality < 2)
M_NewRepetitions(state, quality) ==
    IF quality < 2 THEN 0 ELSE state.repetitions + 1

\* srs.ts 50-56: the repetition count after the review
NewRepetitions(state, quality) ==
    IF quality < 3 THEN 0 ELSE state.repetitions + 1

\* mutant: the interval grows by the ease factor before its update
M_NewInterval(state, quality, newEaseFactor, newRepetitions) ==
    IF quality < 3 THEN 1
    ELSE IF newRepetitions = 1 THEN 1
    ELSE IF newRepetitions = 2 THEN 3
    ELSE Round(state.interval * state.easeFactor, 1000)

\* srs.ts 50-66: the interval after the review; newEaseFactor is the updated,
\* clamped ease factor and newRepetitions the updated repetition count.
\* Math.round(interval * (ef / 1000)) agrees with Round for interval < 15 and
\* ef <= 6000, the range the model stays in.
NewInterval(state, quality, newEaseFactor, newRepetitions) ==
    IF quality < 3 THEN 1
    ELSE IF newRepetitions = 1 THEN 1
    ELSE IF newRepetitions = 2 THEN 3
    ELSE Round(state.interval * newEaseFactor, 1000)

\* The body of calculateNextReview after the quality check (srs.ts 37-77);
\* `at` is the value of new Date() inside the call.
NextReviewState(state, quality, at) ==
    LET newEaseFactor == ClampEase(state.easeFactor + EaseDelta(quality))
        newRepetitions == NewRepetitions(state, quality)
        newInterval == NewInterval(state, quality, newEaseFactor, newRepetitions)
    IN [ok |-> TRUE, interval |-> newInterval, easeFactor |-> newEaseFactor,
        repetitions |-> newRepetitions,
        nextReviewAt |-> at + newInterval * TicksPerDay]

\* calculateNextReview(state, quality). The result carries ok = FALSE when the
\* function throws "Quality must be between 0 and 5".
calculateNextReview(state, quality, at) ==
    IF ~QualityInRange(quality)
    THEN [ok |-> FALSE, interval |-> state.interval, easeFactor |-> state.easeFactor,
          repetitions |-> state.repetitions, nextReviewAt |-> state.nextReviewAt]
    ELSE NextReviewState(state, quality, at)

\* mutant: the ease factor score is not capped at 50
M_calculateMasteryPercentage(state) ==
    Round(Min(state.repetitions, 10) * 170 + (state.easeFactor - 1300), 34)

\* Math.round(Math.min(repetitions / 10, 1) * 50 +
\*            Math.min((easeFactor - 1300) / 1700, 1) * 50), for easeFactor >= 1300:
\* min(repetitions, 10) * 5 + min(easeFactor - 1300, 1700) / 34, over the common
\* denominator 34. The floating-point sum rounds as Round does on the ease
\* factors of MasteryEaseFactors.
calculateMasteryPercentage(state) ==
    Round(Min(state.repetitions, 10) * 170 + Min(state.easeFactor - 1300, 1700), 34)

\* mutant: five repetitions do not yet count as mastered
M_getWordStatus(state) ==
    IF state.repetitions = 0 THEN "new"
    ELSE IF state.repetitions <= 5 \/ state.easeFactor < 2000 THEN "learning"
    ELSE "mastered"

getWordStatus(state) ==
    IF state.repetitions = 0 THEN "new"
    ELSE IF state.repetitions < 5 \/ state.easeFactor < 2000 THEN "learning"
    ELSE "mastered"

----------------------------------------------------------------------------
(* drizzle/schema.ts: the tables *)

CheckpointTypes == <<"review_1", "review_3", "review_10", "review_21", "review_50">>
CheckpointDays == <<1, 3, 10, 21, 50>>

\* today.setHours(0, 0, 0, 0): the midnight at or before t
Midnight(t) == (t \div TicksPerDay) * TicksPerDay

ProgressIds == 1 .. Len(progress)
TaskIds == 1 .. Len(tasks)

\* rows of userProgress with eq(userId) and eq(phraseId)
ProgressOf(userId, phraseId) ==
    {k \in ProgressIds : progress[k].userId = userId /\ progress[k].phraseId = phraseId}

\* rows of dailyTasks with eq(userId), eq(phraseId) and eq(taskType)
TasksOf(userId, phraseId, taskType) ==
    {k \in TaskIds : /\ tasks[k].userId = userId
                     /\ tasks[k].phraseId = phraseId
                     /\ tasks[k].taskType = taskType}

\* a userProgress row as db.insert fills it in: the columns the insert leaves out
\* take the defaults of the schema
NewProgressRow(userId, phraseId, interval, easeFactor, repetitions, correctCount, incorrectCount, lastReviewedAt, nextReviewAt, status) ==
    [userId |-> userId, phraseId |-> phraseId, interval |-> interval,
     easeFactor |-> easeFactor, repetitions |-> repetitions,
     correctCount |-> correctCount, incorrectCount |-> incorrectCount,
     lastReviewedAt |-> lastReviewedAt, nextReviewAt |-> nextReviewAt,
     status |-> status]

\* a dailyTasks row as db.insert fills it in: status pending, isCorrect and
\* completedAt null
NewTaskRow(userId, phraseId, taskType, scheduledDate, daysFromLearning) ==
    [userId |-> userId, phraseId |-> phraseId, taskType |-> taskType,
     scheduledDate |-> scheduledDate, daysFromLearning |-> daysFromLearning,
     status |-> "pending", isCorrect |-> "null", completedAt |-> NoTime]

\* a studySessions row
NewSessionRow(userId, sessionDate, phrasesStudied, correctAnswers) ==
    [userId |-> userId, sessionDate |-> sessionDate,
     phrasesStudied |-> phrasesStudied, correctAnswers |-> correctAnswers]

\* the learningAnalytics row of a user; exists = FALSE: the user has none
NewAnalyticsRow(avgPhrasesPerDay, avgRetention, learningPace, optimalDailyLoad) ==
    [exists |-> TRUE, avgPhrasesPerDay |-> avgPhrasesPerDay,
     avgRetention |-> avgRetention, learningPace |-> learningPace,
     optimalDailyLoad |-> optimalDailyLoad]

NoAnalytics == [NewAnalyticsRow(0, 0, "normal", 0) EXCEPT !.exists = FALSE]

----------------------------------------------------------------------------
(* Request slots *)

\* the value of a handler's `progress` / `existing` local when the select found no row
NoRow == NewProgressRow("none", "none", 0, 0, 0, 0, 0, NoTime, 0, "new")

\* pc: where the handler stands; userId, phraseId, id, isCorrect, quality: its
\* arguments; at: the `now` it captured; snap, row: the id and the contents of
\* the progress row its select returned (0, NoRow: none); idx: the position in
\* reviewSchedules; picked: the rows its unlearned-phrases select returned;
\* found: whether the update of the task matched a row; dailyLoad: the limit of
\* the unlearned-phrases select; was: the status the task had before the update
\* ("none": no task matched); avg, retention, pace, load: the avgPhrasesPerDay,
\* avgAccuracy, learningPace and optimalDailyLoad an analytics handler computed
IdleCall ==
    [pc |-> "idle", userId |-> "none", phraseId |-> "none",
     id |-> 0, isCorrect |-> FALSE, quality |-> 0, at |-> 0, snap |-> 0,
     row |-> NoRow, idx |-> 0, picked |-> {}, found |-> TRUE, dailyLoad |-> 0,
     was |-> "none", avg |-> 0, retention |-> 0, pace |-> "normal", load |-> 0]

NoResult == [op |-> "none", quality |-> 0, outcome |-> "none"]

AllIdle == \A pr \in Procs : call[pr].pc = "idle"

\* a request may arrive at an idle slot; the scenario bounds the number of
\* requests and says whether one may arrive while another is in flight
CanStart(pr) ==
    /\ call[pr].pc = "idle"
    /\ ops < mode.maxOps
    /\ mode.overlap \/ AllIdle

\* the handler of slot pr returns or throws; quality is the quality the request
\* carried (0 for a request that carries none)
Return(pr, op, quality, outcome) ==
    /\ call' = [call EXCEPT ![pr] = IdleCall]
    /\ result' = [result EXCEPT ![pr] =
          [op |-> op, quality |-> quality, outcome |-> outcome]]

\* the history of a progress row: the handler that wrote the last scored review
\* to it, the outcome and quality of that review, the time the handler took as
\* the time of the review, and the number n of scored reviews written to the row
Scored(via, isCorrect, quality, at, n) ==
    [via |-> via, outcome |-> IF isCorrect THEN "success" ELSE "failure",
     quality |-> quality, at |-> at, n |-> n]

----------------------------------------------------------------------------
(* Initial state: empty tables, no request in flight *)

FnIdle ==
    [state |-> [interval |-> DefaultInterval, easeFactor |-> DefaultEaseFactor,
                repetitions |-> DefaultRepetitions, nextReviewAt |-> 0],
     quality |-> 0, done |-> FALSE,
     res |-> [ok |-> FALSE, interval |-> 0, easeFactor |-> 0, repetitions |-> 0,
              nextReviewAt |-> 0],
     status |-> "none",
     other |-> [interval |-> DefaultInterval, easeFactor |-> DefaultEaseFactor,
                repetitions |-> DefaultRepetitions, nextReviewAt |-> 0],
     mastery |-> 0, masteryOther |-> 0,
     profile |-> [optimalDailyLoad |-> 20, averageAccuracy |-> 0,
                  learningPace |-> "normal", weakCategories |-> <<>>],
     dueCount |-> 0, missions |-> <<>>,
     answer |-> [repetitions |-> 0, interval |-> 0, easeFactor |-> 0]]

InitStore ==
    /\ progress = <<>>
    /\ tasks = <<>>
    /\ now = 0
    /\ call = [pr \in Procs |-> IdleCall]
    /\ result = [pr \in Procs |-> NoResult]
    /\ ops = 0
    /\ lastScored = <<>>
    /\ ctHist = [key \in Users \X Phrases |-> [calls |-> 0, correct |-> 0]]
    /\ sessions = <<>>
    /\ analytics = [userId \in Users |-> NoAnalytics]

\* a scenario: maxOps requests, overlapping or one at a time, made by `users`
\* about `phrases`, the clock running up to maxNow, the store available (getDb()
\* returns a connection) or not (getDb() returns null)
Scenario(maxOps, overlap, users, phrases, maxNow, db) ==
    [maxOps |-> maxOps, overlap |-> overlap, users |-> users, phrases |-> phrases,
     maxNow |-> maxNow, db |-> db]

\* two requests in flight
Init == InitStore /\ fn = FnIdle /\ mode = Scenario(MaxOps, TRUE, {"u1"}, {"p1"}, 0, TRUE)

\* one request at a time: a handler runs to its return before the next starts
InitSeq == InitStore /\ fn = FnIdle /\ mode = Scenario(MaxSeqOps, FALSE, {"u1"}, {"p1"}, 0, TRUE)

\* one request at a time, made by two users about the same phrase
InitTenants ==
    InitStore /\ fn = FnIdle /\ mode = Scenario(MaxTenantOps, FALSE, Users, {"p1"}, 0, TRUE)

\* one request at a time; the store is available throughout, or getDb() returns
\* null throughout (no DATABASE_URL, or the connection could not be made)
InitOutage ==
    /\ InitStore
    /\ fn = FnIdle
    /\ \E db \in BOOLEAN : mode = Scenario(MaxOutageOps, FALSE, {"u1"}, {"p1"}, 0, db)

\* one request at a time about two phrases, the clock running past their
\* review dates
InitDue ==
    InitStore /\ fn = FnIdle /\ mode = Scenario(MaxDueOps, FALSE, {"u1"}, Phrases, MaxDueNow, TRUE)

\* one request at a time, the analytics handlers among them
InitAdaptive ==
    InitStore /\ fn = FnIdle /\ mode = Scenario(MaxAdaptiveOps, FALSE, {"u1"}, {"p1"}, 0, TRUE)

\* one request at a time, and the clock runs
InitClock == InitStore /\ fn = FnIdle /\ mode = Scenario(MaxClockOps, FALSE, {"u1"}, {"p1"}, MaxNow, TRUE)

----------------------------------------------------------------------------
(* server/routers/learning.ts: submitReview *)

\* z.number().min(0).max(5)
InputQualityOK(quality) == quality >= 0 /\ quality <= 5

SRSStateOf(row) ==
    [interval |-> row.interval, easeFactor |-> row.easeFactor,
     repetitions |-> row.repetitions, nextReviewAt |-> row.nextReviewAt]

\* mutant: the handler scores the review without checking the quality
M_submitReview(pr) ==
    \/ \* the select of the progress record
       \E userId \in mode.users, id \in 1 .. Len(progress) + 1, quality \in Qualities :
         /\ CanStart(pr)
         /\ ops' = ops + 1
         /\ IF ~mode.db
            THEN Return(pr, "submitReview", quality, "error")
            ELSE IF id \notin ProgressIds \/ progress[id].userId # userId
            THEN Return(pr, "submitReview", quality, "not_found")
            ELSE /\ call' = [call EXCEPT ![pr] =
                       [IdleCall EXCEPT !.pc = "sr_write", !.userId = userId, !.id = id,
                                        !.quality = quality, !.snap = id,
                                        !.row = progress[id]]]
                 /\ UNCHANGED result
         /\ UNCHANGED <<progress, tasks, lastScored, ctHist, now, fn, mode, sessions, analytics>>
    \/ \* calculateNextReview, getWordStatus, then the update
       /\ call[pr].pc = "sr_write"
       /\ LET c == call[pr]
              newState == NextReviewState(SRSStateOf(c.row), c.quality, now)
          IN IF ~newState.ok
             THEN /\ Return(pr, "submitReview", c.quality, "invalid_input")
                  /\ UNCHANGED <<progress, lastScored>>
             ELSE /\ progress' = [progress EXCEPT ![c.id] =
                        [@ EXCEPT !.interval = newState.interval,
                                  !.easeFactor = newState.easeFactor,
                                  !.repetitions = newState.repetitions,
                                  !.nextReviewAt = newState.nextReviewAt,
                                  !.status = getWordStatus(newState),
                                  !.lastReviewedAt = now,
                                  !.correctCount = IF c.quality >= 3
                                      THEN c.row.correctCount + 1 ELSE c.row.correctCount,
                                  !.incorrectCount = IF c.quality < 3
                                      THEN c.row.incorrectCount + 1 ELSE c.row.incorrectCount]]
                  /\ lastScored' = [lastScored EXCEPT ![c.id] =
                        Scored("submitReview", c.quality >= 3, c.quality, now,
                               lastScored[c.id].n + 1)]
                  /\ Return(pr, "submitReview", c.quality, "success")
       /\ UNCHANGED <<tasks, ops, ctHist, now, fn, mode, sessions, analytics>>

submitReview(pr) ==
    \/ \* input validation, then the select of the progress record
       \E userId \in mode.users, id \in 1 .. Len(progress) + 1, quality \in Qualities :
         /\ CanStart(pr)
         /\ ops' = ops + 1
         /\ IF ~InputQualityOK(quality)
            THEN Return(pr, "submitReview", quality, "invalid_input")
            ELSE IF ~mode.db
            THEN \* db.select on no connection throws
                 Return(pr, "submitReview", quality, "error")
            ELSE IF id \notin ProgressIds \/ progress[id].userId # userId
            THEN Return(pr, "submitReview", quality, "not_found")
            ELSE /\ call' = [call EXCEPT ![pr] =
                       [IdleCall EXCEPT !.pc = "sr_write", !.userId = userId, !.id = id,
                                        !.quality = quality, !.snap = id,
                                        !.row = progress[id]]]
                 /\ UNCHANGED result
         /\ UNCHANGED <<progress, tasks, lastScored, ctHist, now, fn, mode, sessions, analytics>>
    \/ \* calculateNextReview, getWordStatus, then the update
       /\ call[pr].pc = "sr_write"
       /\ LET c == call[pr]
              newState == calculateNextReview(SRSStateOf(c.row), c.quality, now)
          IN IF ~newState.ok
             THEN /\ Return(pr, "submitReview", c.quality, "invalid_input")
                  /\ UNCHANGED <<progress, lastScored>>
             ELSE /\ progress' = [progress EXCEPT ![c.id] =
                        [@ EXCEPT !.interval = newState.interval,
                                  !.easeFactor = newState.easeFactor,
                                  !.repetitions = newState.repetitions,
                                  !.nextReviewAt = newState.nextReviewAt,
                                  !.status = getWordStatus(newState),
                                  !.lastReviewedAt = now,
                                  !.correctCount = IF c.quality >= 3
                                      THEN c.row.correctCount + 1 ELSE c.row.correctCount,
                                  !.incorrectCount = IF c.quality < 3
                                      THEN c.row.incorrectCount + 1 ELSE c.row.incorrectCount]]
                  /\ lastScored' = [lastScored EXCEPT ![c.id] =
                        Scored("submitReview", c.quality >= 3, c.quality, now,
                               lastScored[c.id].n + 1)]
                  /\ Return(pr, "submitReview", c.quality, "success")
       /\ UNCHANGED <<tasks, ops, ctHist, now, fn, mode, sessions, analytics>>

----------------------------------------------------------------------------
(* server/routers.ts: learning.recordAnswer *)

Max(a, b) == IF a >= b THEN a ELSE b

\* mutant: the ease factor is updated without Math.max(1300, ...)
M_RecordAnswerState(p, isCorrect) ==
    IF isCorrect
    THEN LET repetitions == p.repetitions + 1
         IN [repetitions |-> repetitions,
             interval |-> IF repetitions = 1 THEN 1
                          ELSE IF repetitions = 2 THEN 3
                          ELSE Round(p.interval * p.easeFactor, 1000),
             easeFactor |-> p.easeFactor + 100 * (5 - 3)]
    ELSE [repetitions |-> 0, interval |-> 1,
          easeFactor |-> p.easeFactor + 100 * (2 - 3)]

\* the inline "SM-2 Algorithm" of recordAnswer on an existing row p
RecordAnswerState(p, isCorrect) ==
    IF isCorrect
    THEN LET repetitions == p.repetitions + 1
         IN [repetitions |-> repetitions,
             interval |-> IF repetitions = 1 THEN 1
                          ELSE IF repetitions = 2 THEN 3
                          ELSE Round(p.interval * p.easeFactor, 1000),
             easeFactor |-> Max(MinEaseFactor, p.easeFactor + 100 * (5 - 3))]
    ELSE [repetitions |-> 0, interval |-> 1,
          easeFactor |-> Max(MinEaseFactor, p.easeFactor + 100 * (2 - 3))]

\* mutant: the row recordAnswer creates starts with interval 0
M_RecordAnswerFirst(isCorrect) ==
    IF isCorrect
    THEN [repetitions |-> 1, interval |-> 0, easeFactor |-> 2500]
    ELSE [repetitions |-> 0, interval |-> 0, easeFactor |-> 1300]

\* the values of a row recordAnswer creates
RecordAnswerFirst(isCorrect) ==
    IF isCorrect
    THEN [repetitions |-> 1, interval |-> 1, easeFactor |-> 2500]
    ELSE [repetitions |-> 0, interval |-> 1, easeFactor |-> 1300]

recordAnswer(pr) ==
    \/ \* if (!db) return { success: false }; const now = new Date(); the
       \* select ... limit(1) of the progress row
       \E userId \in mode.users, phraseId \in mode.phrases, isCorrect \in BOOLEAN :
         \E k \in ProgressOf(userId, phraseId) \cup {0} :
           /\ CanStart(pr)
           /\ k = 0 <=> ProgressOf(userId, phraseId) = {}
           /\ ops' = ops + 1
           /\ IF ~mode.db
              THEN Return(pr, "recordAnswer", 0, "failure")
              ELSE /\ call' = [call EXCEPT ![pr] =
                         [IdleCall EXCEPT !.pc = "ra_write", !.userId = userId,
                                          !.phraseId = phraseId, !.isCorrect = isCorrect,
                                          !.at = now, !.snap = k,
                                          !.row = IF k = 0 THEN NoRow ELSE progress[k]]]
                   /\ UNCHANGED result
           /\ UNCHANGED <<progress, tasks, lastScored, ctHist, now, fn, mode, sessions, analytics>>
    \/ \* the update of the row read, or the insert of a new one
       /\ call[pr].pc = "ra_write"
       /\ LET c == call[pr]
              quality == IF c.isCorrect THEN 5 ELSE 2
          IN /\ IF c.snap # 0
                THEN LET s == RecordAnswerState(c.row, c.isCorrect)
                     IN /\ progress' = [progress EXCEPT ![c.snap] =
                              [@ EXCEPT !.interval = s.interval,
                                        !.easeFactor = s.easeFactor,
                                        !.repetitions = s.repetitions,
                                        !.correctCount = IF c.isCorrect
                                            THEN c.row.correctCount + 1 ELSE c.row.correctCount,
                                        !.incorrectCount = IF ~c.isCorrect
                                            THEN c.row.incorrectCount + 1 ELSE c.row.incorrectCount,
                                        !.lastReviewedAt = c.at,
                                        !.nextReviewAt = c.at + s.interval * TicksPerDay]]
                        /\ lastScored' = [lastScored EXCEPT ![c.snap] =
                              Scored("recordAnswer", c.isCorrect, quality, c.at,
                                     lastScored[c.snap].n + 1)]
                ELSE LET s == RecordAnswerFirst(c.isCorrect)
                     IN /\ progress' = Append(progress,
                              NewProgressRow(c.userId, c.phraseId, s.interval, s.easeFactor,
                                  s.repetitions,
                                  IF c.isCorrect THEN 1 ELSE 0,
                                  IF ~c.isCorrect THEN 1 ELSE 0,
                                  c.at, c.at + s.interval * TicksPerDay,
                                  IF c.isCorrect THEN "learning" ELSE "new"))
                        /\ lastScored' = Append(lastScored,
                              Scored("recordAnswer", c.isCorrect, quality, c.at, 1))
             /\ Return(pr, "recordAnswer", 0, "success")
       /\ UNCHANGED <<tasks, ops, ctHist, now, fn, mode, sessions, analytics>>

----------------------------------------------------------------------------
(* server/taskScheduler.ts: completeDailyTask and scheduleNextReviews *)

\* mutant: an incorrect answer resets the repetitions
M_CompletedProgress(stored, p, isCorrect, at) ==
    [stored EXCEPT !.correctCount = p.correctCount + IF isCorrect THEN 1 ELSE 0,
                   !.incorrectCount = p.incorrectCount + IF isCorrect THEN 0 ELSE 1,
                   !.repetitions = IF isCorrect THEN p.repetitions + 1 ELSE 0,
                   !.lastReviewedAt = at]

\* the update of an existing progress row by completeDailyTask: `stored` is the
\* row in the table, p the row the select returned
CompletedProgress(stored, p, isCorrect, at) ==
    [stored EXCEPT !.correctCount = p.correctCount + IF isCorrect THEN 1 ELSE 0,
                   !.incorrectCount = p.incorrectCount + IF isCorrect THEN 0 ELSE 1,
                   !.repetitions = p.repetitions + 1,
                   !.lastReviewedAt = at]

\* a completeTask call returns to its caller
ReturnCompleteTask(pr) ==
    /\ Return(pr, "completeTask", 0, "success")
    /\ ctHist' = [ctHist EXCEPT ![<<call[pr].userId, call[pr].phraseId>>] =
          [calls |-> @.calls + 1,
           correct |-> @.correct + IF call[pr].isCorrect THEN 1 ELSE 0]]

completeDailyTask(pr) ==
    \/ \* if (!db) return; const now = new Date(); update dailyTasks ... where
       \* id = taskId. Without a connection completeDailyTask returns and the
       \* router answers { success: true }.
       \E userId \in mode.users, taskId \in 1 .. Len(tasks) + 1,
          phraseId \in mode.phrases, isCorrect \in BOOLEAN :
         /\ CanStart(pr)
         /\ ops' = ops + 1
         /\ IF ~mode.db
            THEN /\ Return(pr, "completeTask", 0, "success")
                 /\ ctHist' = [ctHist EXCEPT ![<<userId, phraseId>>] =
                       [calls |-> @.calls + 1,
                        correct |-> @.correct + IF isCorrect THEN 1 ELSE 0]]
                 /\ UNCHANGED tasks
            ELSE /\ tasks' = IF taskId \in TaskIds
                             THEN [tasks EXCEPT ![taskId] =
                                     [@ EXCEPT !.status = "completed", !.completedAt = now,
                                               !.isCorrect = IF isCorrect THEN "1" ELSE "0"]]
                             ELSE tasks
                 /\ call' = [call EXCEPT ![pr] =
                       [IdleCall EXCEPT !.pc = "ct_read", !.userId = userId,
                                        !.phraseId = phraseId, !.isCorrect = isCorrect,
                                        !.at = now, !.found = taskId \in TaskIds,
                                        !.was = IF taskId \in TaskIds
                                                THEN tasks[taskId].status ELSE "none"]]
                 /\ UNCHANGED <<result, ctHist>>
         /\ UNCHANGED <<progress, lastScored, now, fn, mode, sessions, analytics>>
    \/ \* select from userProgress where userId and phraseId, limit(1)
       /\ call[pr].pc = "ct_read"
       /\ \E k \in ProgressOf(call[pr].userId, call[pr].phraseId) \cup {0} :
            /\ k = 0 <=> ProgressOf(call[pr].userId, call[pr].phraseId) = {}
            /\ call' = [call EXCEPT ![pr].pc = "ct_write", ![pr].snap = k,
                                    ![pr].row = IF k = 0 THEN NoRow ELSE progress[k]]
       /\ UNCHANGED <<progress, tasks, result, ops, lastScored, ctHist, now, fn, mode, sessions, analytics>>
    \/ \* insert of a new progress row, or update of the row read
       /\ call[pr].pc = "ct_write"
       /\ LET c == call[pr]
              quality == IF c.isCorrect THEN 5 ELSE 2
          IN /\ IF c.snap = 0
                THEN /\ progress' = Append(progress,
                           NewProgressRow(c.userId, c.phraseId, DefaultInterval,
                               DefaultEaseFactor, DefaultRepetitions,
                               IF c.isCorrect THEN 1 ELSE 0,
                               IF c.isCorrect THEN 0 ELSE 1,
                               NoTime, c.at + 1 * TicksPerDay, "learning"))
                     /\ lastScored' = Append(lastScored,
                           Scored("completeTask", c.isCorrect, quality, c.at, 1))
                ELSE /\ progress' = [progress EXCEPT ![c.snap] =
                           CompletedProgress(@, c.row, c.isCorrect, c.at)]
                     /\ lastScored' = [lastScored EXCEPT ![c.snap] =
                           Scored("completeTask", c.isCorrect, quality, c.at,
                                  lastScored[c.snap].n + 1)]
             /\ IF c.isCorrect
                THEN \* scheduleNextReviews(userId, phraseId): const now = new Date()
                     /\ call' = [call EXCEPT ![pr].pc = "sn_check", ![pr].idx = 1,
                                             ![pr].at = now]
                     /\ UNCHANGED <<result, ctHist>>
                ELSE ReturnCompleteTask(pr)
       /\ UNCHANGED <<tasks, ops, now, fn, mode, sessions, analytics>>

\* mutant: the insert is not guarded by the existence check
M_ExistingCheckpoint(userId, phraseId, taskType) == {}

\* the "Check if task already exists" select of scheduleNextReviews
ExistingCheckpoint(userId, phraseId, taskType) == TasksOf(userId, phraseId, taskType)

\* the end of one iteration of the loop over reviewSchedules
NextSchedule(pr) ==
    IF call[pr].idx = Len(CheckpointTypes)
    THEN ReturnCompleteTask(pr)
    ELSE /\ call' = [call EXCEPT ![pr].pc = "sn_check", ![pr].idx = @ + 1]
         /\ UNCHANGED <<result, ctHist>>

scheduleNextReviews(pr) ==
    \/ \* the select of an existing task of this type, found
       /\ call[pr].pc = "sn_check"
       /\ ExistingCheckpoint(call[pr].userId, call[pr].phraseId,
                             CheckpointTypes[call[pr].idx]) # {}
       /\ NextSchedule(pr)
       /\ UNCHANGED <<progress, tasks, ops, lastScored, now, fn, mode, sessions, analytics>>
    \/ \* the select of an existing task of this type, none found
       /\ call[pr].pc = "sn_check"
       /\ ExistingCheckpoint(call[pr].userId, call[pr].phraseId,
                             CheckpointTypes[call[pr].idx]) = {}
       /\ call' = [call EXCEPT ![pr].pc = "sn_insert"]
       /\ UNCHANGED <<progress, tasks, result, ops, lastScored, ctHist, now, fn, mode, sessions, analytics>>
    \/ \* the insert of the checkpoint task
       /\ call[pr].pc = "sn_insert"
       /\ LET c == call[pr]
              days == CheckpointDays[c.idx]
          IN tasks' = Append(tasks,
                 NewTaskRow(c.userId, c.phraseId, CheckpointTypes[c.idx],
                            Midnight(c.at + days * TicksPerDay), days))
       /\ NextSchedule(pr)
       /\ UNCHANGED <<progress, ops, lastScored, now, fn, mode, sessions, analytics>>

----------------------------------------------------------------------------
(* server/taskScheduler.ts: initializeDailyTasks *)

DailyLoads == {1, 2}

\* phrases LEFT JOIN userProgress ON phrases.id = userProgress.phraseId
\* WHERE userProgress.id IS NULL OR userProgress.userId != userId:
\* the rows <<phrase, progress row id>>, 0 for the NULL row of an unmatched phrase
Unlearned(userId) ==
    {<<ph, 0>> : ph \in {q \in mode.phrases : \A k \in ProgressIds : progress[k].phraseId # q}}
    \cup {<<progress[k].phraseId, k>> : k \in {j \in ProgressIds : progress[j].userId # userId}}

RECURSIVE RowsToTasks(_, _, _)
\* unlearned.map(item => task) for the rows picked
RowsToTasks(picked, userId, today) ==
    IF picked = {} THEN <<>>
    ELSE LET item == CHOOSE x \in picked : TRUE
         IN <<NewTaskRow(userId, item[1], "new", today, 0)>>
            \o RowsToTasks(picked \ {item}, userId, today)

initializeDailyTasks(pr) ==
    \/ \* if (!db) return; the select of unlearned phrases, ORDER BY RAND()
       \* LIMIT dailyLoad. The router answers { success: true } in every case.
       \E userId \in mode.users, dailyLoad \in DailyLoads :
         \E picked \in SUBSET Unlearned(userId) :
           /\ CanStart(pr)
           /\ Cardinality(picked) =
                  IF Cardinality(Unlearned(userId)) < dailyLoad
                  THEN Cardinality(Unlearned(userId)) ELSE dailyLoad
           /\ ops' = ops + 1
           /\ IF ~mode.db \/ picked = {}
              THEN Return(pr, "initializeTasks", 0, "success")
              ELSE /\ call' = [call EXCEPT ![pr] =
                         [IdleCall EXCEPT !.pc = "it_insert", !.userId = userId,
                                          !.picked = picked, !.dailyLoad = dailyLoad]]
                   /\ UNCHANGED result
           /\ UNCHANGED <<progress, tasks, lastScored, ctHist, now, fn, mode, sessions, analytics>>
    \/ \* today = midnight; the insert of the tasks
       /\ call[pr].pc = "it_insert"
       /\ tasks' = tasks \o RowsToTasks(call[pr].picked, call[pr].userId, Midnight(now))
       /\ Return(pr, "initializeTasks", 0, "success")
       /\ UNCHANGED <<progress, ops, lastScored, ctHist, now, fn, mode, sessions, analytics>>

----------------------------------------------------------------------------
(* server/taskScheduler.ts: getTodaysTasks and getTodaysTaskCount *)

\* tomorrow.setDate(tomorrow.getDate() + 1) on today's midnight
Tomorrow(t) == Midnight(t) + TicksPerDay

\* the ids of the rows getTodaysTasks(userId) returns at the present time:
\* eq(userId), gte(scheduledDate, today), lte(scheduledDate, tomorrow); [] when
\* there is no connection
getTodaysTasks(userId) ==
    IF ~mode.db THEN {}
    ELSE {k \in TaskIds : /\ tasks[k].userId = userId
                          /\ tasks[k].scheduledDate >= Midnight(now)
                          /\ tasks[k].scheduledDate <= Tomorrow(now)}

\* COUNT(*) of the pending tasks in the same range; 0 when there is no connection
getTodaysTaskCount(userId) ==
    IF ~mode.db THEN 0
    ELSE Cardinality({k \in TaskIds : /\ tasks[k].userId = userId
                                      /\ tasks[k].status = "pending"
                                      /\ tasks[k].scheduledDate >= Midnight(now)
                                      /\ tasks[k].scheduledDate <= Tomorrow(now)})

----------------------------------------------------------------------------
(* The due-items queries: getWordsForReview (server/routers/learning.ts) and the
   duePhrase select of getNextPhrase (server/routers.ts) *)

\* .limit(20) of getWordsForReview
ReviewLimit == 20

\* the orders in which ORDER BY nextReviewAt DESC can return the rows of S
DescByNextReviewAt(S) ==
    {s \in [1 .. Cardinality(S) -> S] :
       /\ \A i, j \in 1 .. Cardinality(S) : s[i] = s[j] => i = j
       /\ \A i, j \in 1 .. Cardinality(S) :
            i < j => progress[s[i]].nextReviewAt >= progress[s[j]].nextReviewAt}

\* the results getWordsForReview can return to userId at the present time, as
\* sequences of progress row ids: eq(userId), lte(nextReviewAt, new Date()),
\* orderBy(desc(nextReviewAt)), limit(20)
getWordsForReview(userId) ==
    LET matching == {k \in ProgressIds : /\ progress[k].userId = userId
                                         /\ progress[k].nextReviewAt <= now}
    IN {SubSeq(s, 1, Min(Len(s), ReviewLimit)) : s \in DescByNextReviewAt(matching)}

\* the results of the duePhrase select of getNextPhrase: eq(userId),
\* lt(nextReviewAt, now), orderBy(desc(nextReviewAt)), limit(1)
duePhrase(userId) ==
    LET matching == {k \in ProgressIds : /\ progress[k].userId = userId
                                         /\ progress[k].nextReviewAt < now}
    IN {SubSeq(s, 1, Min(Len(s), 1)) : s \in DescByNextReviewAt(matching)}

----------------------------------------------------------------------------
(* server/taskScheduler.ts: recordStudySession and updateLearningAnalytics;
   server/learning/adaptiveEngine.ts: adjustLearningParameters *)

\* the phrasesStudied a client reports for a session (positive: with no phrase
\* studied in the window avgAccuracy is 0 / 0)
SessionSizes == {30, 450, 930}

\* days of the window of updateLearningAnalytics and of adjustLearningParameters
AnalyticsWindowDays == 30
PerformanceWindowDays == 7

RECURSIVE SumOver(_, _, _)
\* rows.reduce((sum, s) => sum + s[field], 0) over the rows of `table` in ids
SumOver(table, ids, field) ==
    IF ids = {} THEN 0
    ELSE LET k == CHOOSE x \in ids : TRUE
         IN table[k][field] + SumOver(table, ids \ {k}, field)

\* the sessions of the user with gte(sessionDate, thirtyDaysAgo)
RecentSessions(userId) ==
    {k \in 1 .. Len(sessions) :
       /\ sessions[k].userId = userId
       /\ sessions[k].sessionDate >= now - AnalyticsWindowDays * TicksPerDay}

\* if (avgPhrasesPerDay < 15) slow; if (avgPhrasesPerDay > 30) fast; else normal
LearningPaceOf(avgPhrasesPerDay) ==
    IF avgPhrasesPerDay > 30 THEN "fast"
    ELSE IF avgPhrasesPerDay < 15 THEN "slow"
    ELSE "normal"

recordStudySession(pr) ==
    \* if (!db) return; the insert of the session; the router answers
    \* { success: true } in every case
    \E userId \in mode.users, phrasesStudied \in SessionSizes :
      \E correctAnswers \in {0, phrasesStudied} :
        /\ CanStart(pr)
        /\ ops' = ops + 1
        /\ IF ~mode.db
           THEN /\ Return(pr, "recordSession", 0, "success")
                /\ UNCHANGED sessions
           ELSE /\ sessions' = Append(sessions,
                      NewSessionRow(userId, now, phrasesStudied, correctAnswers))
                /\ call' = [call EXCEPT ![pr] =
                      [IdleCall EXCEPT !.pc = "ua_sessions", !.userId = userId]]
                /\ UNCHANGED result
        /\ UNCHANGED <<progress, tasks, lastScored, ctHist, now, fn, mode, analytics>>

updateLearningAnalytics(pr) ==
    \/ \* the select of the last 30 days of sessions, and the metrics
       /\ call[pr].pc = "ua_sessions"
       /\ LET rows == RecentSessions(call[pr].userId)
              totalPhrases == SumOver(sessions, rows, "phrasesStudied")
              totalCorrect == SumOver(sessions, rows, "correctAnswers")
              avgPhrasesPerDay == Round(totalPhrases, 30)
          IN IF rows = {}
             THEN Return(pr, "recordSession", 0, "success")
             ELSE /\ call' = [call EXCEPT ![pr].pc = "ua_existing",
                                         ![pr].avg = avgPhrasesPerDay,
                                         ![pr].retention = Round(totalCorrect * 100, totalPhrases),
                                         ![pr].pace = LearningPaceOf(avgPhrasesPerDay)]
                  /\ UNCHANGED result
       /\ UNCHANGED <<progress, tasks, ops, lastScored, ctHist, now, fn, mode, sessions, analytics>>
    \/ \* the select of the existing analytics record, limit(1)
       /\ call[pr].pc = "ua_existing"
       /\ call' = [call EXCEPT ![pr].pc = "ua_write",
                               ![pr].snap = IF analytics[call[pr].userId].exists THEN 1 ELSE 0]
       /\ UNCHANGED <<progress, tasks, result, ops, lastScored, ctHist, now, fn, mode, sessions, analytics>>
    \/ \* the update of the record (optimalDailyLoad is not in the set), or the
       \* insert of a new one
       /\ call[pr].pc = "ua_write"
       /\ LET c == call[pr]
          IN analytics' =
               IF c.snap # 0
               THEN IF analytics[c.userId].exists
                    THEN [analytics EXCEPT ![c.userId] =
                            [@ EXCEPT !.avgPhrasesPerDay = c.avg,
                                      !.avgRetention = c.retention,
                                      !.learningPace = c.pace]]
                    ELSE analytics
               ELSE [analytics EXCEPT ![c.userId] =
                       NewAnalyticsRow(c.avg, c.retention, c.pace, c.avg)]
       /\ Return(pr, "recordSession", 0, "success")
       /\ UNCHANGED <<progress, tasks, ops, lastScored, ctHist, now, fn, mode, sessions>>

\* the rows of the recentPerformance select: eq(userId) and
\* gte(lastReviewedAt, sevenDaysAgo); a row whose lastReviewedAt is NULL does
\* not match
RecentlyReviewed(userId) ==
    {k \in ProgressIds :
       /\ progress[k].userId = userId
       /\ progress[k].lastReviewedAt # NoTime
       /\ progress[k].lastReviewedAt >= now - PerformanceWindowDays * TicksPerDay}

\* (pace, load, avgRetention) from COUNT(*) and
\* SUM(CASE WHEN correctCount > 0 THEN 1 ELSE 0 END):
\* accuracy = totalReviews > 0 ? correctReviews / totalReviews * 100 : 0
AdjustedParameters(totalReviews, correctReviews) ==
    IF totalReviews > 0 /\ correctReviews * 100 > 85 * totalReviews
    THEN [pace |-> "fast", load |-> 30,
          retention |-> Round(correctReviews * 100, totalReviews)]
    ELSE IF totalReviews = 0 \/ correctReviews * 100 < 60 * totalReviews
    THEN [pace |-> "slow", load |-> 10,
          retention |-> IF totalReviews = 0 THEN 0
                        ELSE Round(correctReviews * 100, totalReviews)]
    ELSE [pace |-> "normal", load |-> 20,
          retention |-> Round(correctReviews * 100, totalReviews)]

adjustLearningParameters(pr) ==
    \/ \* the recentPerformance select, and the new pace and load
       \E userId \in mode.users :
         /\ CanStart(pr)
         /\ ops' = ops + 1
         /\ IF ~mode.db
            THEN \* db.select on no connection throws
                 Return(pr, "adjustLearningParameters", 0, "error")
            ELSE LET rows == RecentlyReviewed(userId)
                     p == AdjustedParameters(Cardinality(rows),
                            Cardinality({k \in rows : progress[k].correctCount > 0}))
                 IN /\ call' = [call EXCEPT ![pr] =
                          [IdleCall EXCEPT !.pc = "al_write", !.userId = userId,
                                           !.pace = p.pace, !.load = p.load,
                                           !.retention = p.retention]]
                    /\ UNCHANGED result
         /\ UNCHANGED <<progress, tasks, lastScored, ctHist, now, fn, mode, sessions, analytics>>
    \/ \* update learningAnalytics ... where userId: no row, no effect
       /\ call[pr].pc = "al_write"
       /\ LET c == call[pr]
          IN analytics' =
               IF analytics[c.userId].exists
               THEN [analytics EXCEPT ![c.userId] =
                       [@ EXCEPT !.learningPace = c.pace,
                                 !.optimalDailyLoad = c.load,
                                 !.avgRetention = c.retention]]
               ELSE analytics
       /\ Return(pr, "adjustLearningParameters", 0, "success")
       /\ UNCHANGED <<progress, tasks, ops, lastScored, ctHist, now, fn, mode, sessions>>

----------------------------------------------------------------------------
(* The clock *)

Tick ==
    /\ now < mode.maxNow
    /\ now' = now + 1
    /\ UNCHANGED <<progress, tasks, call, result, ops, lastScored, ctHist, fn, mode, sessions, analytics>>

----------------------------------------------------------------------------
(* Requests in flight interleave at every awaited statement *)

Step ==
    \E pr \in Procs :
      \/ submitReview(pr)
      \/ recordAnswer(pr)
      \/ completeDailyTask(pr)
      \/ scheduleNextReviews(pr)
      \/ initializeDailyTasks(pr)

\* The clock stands still: no handler branches on a time, and no time flows
\* into a column that is not a time.
Next == Step

Spec == Init /\ [][Next]_vars

SpecSeq == InitSeq /\ [][Next]_vars

SpecTenants == InitTenants /\ [][Next]_vars

SpecOutage == InitOutage /\ [][Next]_vars

\* the handlers that keep the learning analytics
AnalyticsStep ==
    \E pr \in Procs :
      \/ recordStudySession(pr)
      \/ updateLearningAnalytics(pr)
      \/ adjustLearningParameters(pr)

NextAdaptive == Step \/ AnalyticsStep

SpecAdaptive == InitAdaptive /\ [][NextAdaptive]_vars

NextClock == Step \/ Tick

SpecClock == InitClock /\ [][NextClock]_vars

SpecDue == InitDue /\ [][NextClock]_vars

----------------------------------------------------------------------------
(* calculateNextReview on its own: any state, any quality *)

FnEaseFactors == {1000, 1300, 1380, 1440, 1700, 2000, 2360, 2500, 2600, 3000}

FnStates ==
    [interval : 0 .. MaxFnInterval, easeFactor : FnEaseFactors,
     repetitions : 0 .. MaxFnReps, nextReviewAt : {0}]

InitFn ==
    /\ InitStore
    /\ mode = Scenario(0, FALSE, {"u1"}, {"p1"}, 0, TRUE)
    /\ \E state \in FnStates, quality \in Qualities :
         fn = [FnIdle EXCEPT !.state = state, !.quality = quality]

ApplyCalculateNextReview ==
    /\ ~fn.done
    /\ LET newState == calculateNextReview(fn.state, fn.quality, now)
       IN fn' = [fn EXCEPT !.res = newState,
                           !.status = IF newState.ok THEN getWordStatus(newState)
                                      ELSE "none",
                           \* what recordAnswer computes from the same state for
                           \* the answer it maps to this quality
                           !.answer = IF fn.quality \in {2, 5}
                                      THEN RecordAnswerState(fn.state, fn.quality = 5)
                                      ELSE @,
                           !.done = TRUE]
    /\ UNCHANGED <<progress, tasks, now, call, result, ops, lastScored, ctHist, mode, sessions, analytics>>

NextFn == ApplyCalculateNextReview

SpecFn == InitFn /\ [][NextFn]_vars

----------------------------------------------------------------------------
(* Properties *)

CheckpointCount(userId, phraseId, i) ==
    Cardinality(TasksOf(userId, phraseId, CheckpointTypes[i]))

\* C1 (Spec): no scored review is lost. Once every request has returned, each
\* progress row counts, in correctCount + incorrectCount, every scored review
\* that was written to it: two reviews of one row, whatever the interleaving of
\* their reads and writes, leave the counters 2 higher.
C1_NoLostUpdate ==
    AllIdle =>
      \A k \in ProgressIds :
        progress[k].correctCount + progress[k].incorrectCount = lastScored[k].n

\* C2 (Spec): in every reachable state, requests interleaved, there is at most
\* one task per (userId, phraseId, taskType) for each checkpoint type.
C2_OneTaskPerCheckpoint ==
    \A userId \in Users, phraseId \in Phrases, i \in 1 .. Len(CheckpointTypes) :
      CheckpointCount(userId, phraseId, i) <= 1

\* C3 (SpecSeq): with one completeTask call at a time, whenever no call is in
\* flight an item has exactly one task of each of the five checkpoint types if
\* some completeTask call for it was correct, and no checkpoint task if none was;
\* so a further call adds none.
C3_CheckpointsIdempotent ==
    AllIdle =>
      \A userId \in Users, phraseId \in Phrases, i \in 1 .. Len(CheckpointTypes) :
        CheckpointCount(userId, phraseId, i) =
          IF ctHist[<<userId, phraseId>>].correct >= 1 THEN 1 ELSE 0

\* C3 witness: two correct completeTask calls for one item have returned and the
\* item has its five checkpoint tasks, one of each type.
C3_Witness ==
    /\ AllIdle
    /\ \E userId \in Users, phraseId \in Phrases :
         /\ ctHist[<<userId, phraseId>>].correct >= 2
         /\ \A i \in 1 .. Len(CheckpointTypes) : CheckpointCount(userId, phraseId, i) = 1

\* C4 (SpecSeq): every persisted progress row has easeFactor >= 1300, after any
\* sequence of submitReview, recordAnswer and completeTask calls.
C4_EaseFactorFloor ==
    \A k \in ProgressIds : progress[k].easeFactor >= 1300

\* C4 witness: a row at the floor whose last review was a failure written by
\* submitReview or recordAnswer on top of an earlier review: the update that
\* would have taken the ease factor below 1300 was clamped.
C4_Witness ==
    \E k \in ProgressIds :
      /\ progress[k].easeFactor = 1300
      /\ lastScored[k].n >= 2
      /\ lastScored[k].outcome = "failure"
      /\ lastScored[k].via \in {"submitReview", "recordAnswer"}

\* C5 (SpecFn): for every state and every quality in {0,1,2} calculateNextReview
\* returns repetitions = 0 and interval = 1.
C5_FailureResets ==
    (fn.done /\ fn.quality \in 0 .. 2) =>
      (fn.res.ok /\ fn.res.repetitions = 0 /\ fn.res.interval = 1)

\* C5 witness: a failed review of a state with repetitions and a longer interval.
C5_Witness ==
    /\ fn.done /\ fn.quality = 2
    /\ fn.state.repetitions >= 2 /\ fn.state.interval >= 3
    /\ fn.res.repetitions = 0 /\ fn.res.interval = 1

\* C6 (SpecFn): for every state with interval >= 1 and every quality in {3,4,5}
\* calculateNextReview returns the prior repetitions plus 1 and an easeFactor not
\* below 1300.
C6_SuccessIncrements ==
    (fn.done /\ fn.quality \in 3 .. 5 /\ fn.state.interval >= 1) =>
      /\ fn.res.ok
      /\ fn.res.repetitions = fn.state.repetitions + 1
      /\ fn.res.easeFactor >= 1300

\* C6 witness: a quality-3 review of a state at the floor, whose ease factor the
\* update would lower.
C6_Witness ==
    /\ fn.done /\ fn.quality = 3
    /\ fn.state.interval >= 1 /\ fn.state.easeFactor = 1300
    /\ fn.res.repetitions = fn.state.repetitions + 1
    /\ fn.res.easeFactor = 1300

\* C7 (SpecFn): on a successful review the interval is 1 when the new repetitions
\* is 1, 3 when it is 2, and otherwise round(oldInterval * newEaseFactor / 1000)
\* with the updated, clamped ease factor; {interval 3, easeFactor 2500,
\* repetitions 2} with quality 5 gives repetitions 3, easeFactor 2600, interval 8.
C7_IntervalRule ==
    (fn.done /\ fn.quality \in 3 .. 5) =>
      /\ fn.res.interval =
           IF fn.res.repetitions = 1 THEN 1
           ELSE IF fn.res.repetitions = 2 THEN 3
           ELSE (fn.state.interval * fn.res.easeFactor + 500) \div 1000
      /\ (/\ fn.state.interval = 3 /\ fn.state.easeFactor = 2500
          /\ fn.state.repetitions = 2 /\ fn.quality = 5)
         => (/\ fn.res.repetitions = 3 /\ fn.res.easeFactor = 2600
             /\ fn.res.interval = 8)

\* C7 witness: a third successful review whose old and new ease factors give
\* different intervals (3 * 2500 rounds to 8, 3 * 2360 to 7).
C7_Witness ==
    /\ fn.done /\ fn.quality = 3
    /\ fn.state.interval = 3 /\ fn.state.easeFactor = 2500 /\ fn.state.repetitions = 2
    /\ fn.res.easeFactor = 2360 /\ fn.res.interval = 7

\* C8 (SpecSeq): a submitReview whose quality is outside [0,5] ends in an error
\* and writes nothing: no such request ever stands at the update, no review
\* written to a progress row by submitReview carries such a quality, and the
\* request's outcome is the input error.
C8_InvalidQualityRejected ==
    /\ \A pr \in Procs :
         /\ call[pr].pc = "sr_write" => call[pr].quality \in 0 .. 5
         /\ (result[pr].op = "submitReview" /\ result[pr].quality \notin 0 .. 5)
              => result[pr].outcome = "invalid_input"
    /\ \A k \in ProgressIds :
         lastScored[k].via = "submitReview" => lastScored[k].quality \in 0 .. 5

\* C8 witness: a submitReview with an out-of-range quality, naming an existing
\* progress row, was rejected.
C8_Witness ==
    \E pr \in Procs :
      /\ result[pr].op = "submitReview"
      /\ result[pr].quality \notin 0 .. 5
      /\ result[pr].outcome = "invalid_input"
      /\ progress # <<>>

\* C9 (SpecSeq): after a successful review through any path a row has
\* repetitions > 0, and after a failed review through any path repetitions = 0.
C9_RepetitionsFollowOutcome ==
    \A k \in ProgressIds :
      /\ lastScored[k].outcome = "success" => progress[k].repetitions > 0
      /\ lastScored[k].outcome = "failure" => progress[k].repetitions = 0

\* C10 (SpecClock): after every scored review, through any path, the row's
\* nextReviewAt is the time of that review plus interval days.
C10_NextReviewReset ==
    \A k \in ProgressIds :
      progress[k].nextReviewAt = lastScored[k].at + progress[k].interval * TicksPerDay

\* C11 (Spec): correctCount and incorrectCount of a progress row never decrease:
\* in every step of submitReview, recordAnswer or completeTask, requests
\* interleaved, each counter of each row is at least its previous value.
C11_CountersMonotone ==
    [][\A k \in ProgressIds :
         /\ progress'[k].correctCount >= progress[k].correctCount
         /\ progress'[k].incorrectCount >= progress[k].incorrectCount]_vars

\* C12 (SpecSeq): a task's status only moves pending -> completed or pending ->
\* skipped: no step returns a task to pending, and no step changes the status,
\* isCorrect or completedAt of a task that is completed or skipped.
C12_TaskStatusTerminal ==
    [][\A k \in TaskIds :
         /\ tasks'[k].status = "pending" => tasks[k].status = "pending"
         /\ tasks[k].status \in {"completed", "skipped"} =>
              /\ tasks'[k].status = tasks[k].status
              /\ tasks'[k].isCorrect = tasks[k].isCorrect
              /\ tasks'[k].completedAt = tasks[k].completedAt]_vars

\* the user's tasks scheduled within [today 00:00, tomorrow 00:00)
TasksOfToday(userId) ==
    {k \in TaskIds : /\ tasks[k].userId = userId
                     /\ Midnight(now) <= tasks[k].scheduledDate
                     /\ tasks[k].scheduledDate < Tomorrow(now)}

\* C13 (SpecSeq): getTodaysTasks(userId) returns exactly the user's tasks with
\* today 00:00 <= scheduledDate < tomorrow 00:00, and getTodaysTaskCount counts
\* exactly the pending ones among them: a task scheduled at tomorrow 00:00 is
\* not in today's list.
C13_TodayHalfOpen ==
    \A userId \in Users :
      /\ getTodaysTasks(userId) = TasksOfToday(userId)
      /\ getTodaysTaskCount(userId) =
           Cardinality({k \in TasksOfToday(userId) : tasks[k].status = "pending"})

\* C14 (SpecSeq): a second initializeTasks call on the same day, for a user whose
\* batch was created by the first call, creates no further task: no item ever
\* has two `new` tasks for one user.
C14_NoDuplicateNewTask ==
    \A userId \in Users, phraseId \in Phrases :
      Cardinality(TasksOf(userId, phraseId, "new")) <= 1

\* C15 (SpecTenants): the insert of initializeTasks(userId, dailyLoad) creates at
\* most dailyLoad tasks, all of type `new` scheduled at today's midnight, each
\* for an item userId has no progress row for, whatever rows other users have,
\* and no two for the same item.
C15_BatchOnlyUnlearned ==
    [][\A pr \in Procs :
         (call[pr].pc = "it_insert" /\ call'[pr].pc = "idle") =>
           LET created == (Len(tasks) + 1) .. Len(tasks')
           IN /\ Cardinality(created) <= call[pr].dailyLoad
              /\ \A k \in created :
                   /\ tasks'[k].userId = call[pr].userId
                   /\ tasks'[k].taskType = "new"
                   /\ tasks'[k].scheduledDate = Midnight(now)
                   /\ ProgressOf(call[pr].userId, tasks'[k].phraseId) = {}
              /\ \A j, k \in created :
                   tasks'[j].phraseId = tasks'[k].phraseId => j = k]_vars

\* C16 (SpecSeq): completeTask with a taskId that matches no task is not a
\* silent no-op: no step of such a call creates or modifies a progress row or a
\* task, and the call ends in a NotFound error, not in success.
C16_MissingTaskNotFound ==
    [][\A pr \in Procs :
         (call[pr].pc # "idle" /\ ~call[pr].found) =>
           /\ progress' = progress
           /\ tasks' = tasks
           /\ call'[pr].pc = "idle" => result'[pr].outcome = "not_found"]_vars

WriteOps == {"completeTask", "initializeTasks", "recordAnswer"}

\* C17 (SpecOutage): while the store is unavailable the reads getTodaysTasks and
\* getTodaysTaskCount return nothing, and no write operation (completeTask,
\* initializeTasks, recordAnswer) reports success to its caller.
C17_OutageFailsLoudly ==
    ~mode.db =>
      /\ \A userId \in Users : getTodaysTasks(userId) = {} /\ getTodaysTaskCount(userId) = 0
      /\ \A pr \in Procs : result[pr].op \in WriteOps => result[pr].outcome # "success"

\* the user's rows that are due: nextReviewAt <= now
DueRows(userId) ==
    {k \in ProgressIds : progress[k].userId = userId /\ progress[k].nextReviewAt <= now}

\* r is a due-items result for userId under the limit: only due rows of the
\* user, at most `limit` of them, in ascending order of nextReviewAt, and, when
\* more than `limit` rows are due, the `limit` rows with the earliest
\* nextReviewAt
MostOverdueFirst(r, userId, limit) ==
    /\ \A i \in 1 .. Len(r) : r[i] \in DueRows(userId)
    /\ Len(r) <= limit
    /\ \A i, j \in 1 .. Len(r) :
         i < j => progress[r[i]].nextReviewAt <= progress[r[j]].nextReviewAt
    /\ Cardinality(DueRows(userId)) > limit =>
         /\ Len(r) = limit
         /\ \A i \in 1 .. Len(r) :
              \A k \in DueRows(userId) \ {r[j] : j \in 1 .. Len(r)} :
                progress[r[i]].nextReviewAt <= progress[k].nextReviewAt

\* C18 (SpecDue): the due-items queries return only the user's rows with
\* nextReviewAt <= now, at most the limit, most overdue first, and the earliest
\* ones when more than the limit are due.
C18_DueMostOverdueFirst ==
    \A userId \in Users :
      /\ \A r \in getWordsForReview(userId) : MostOverdueFirst(r, userId, ReviewLimit)
      /\ \A r \in duePhrase(userId) : MostOverdueFirst(r, userId, 1)

\* C19 (SpecFn): getWordStatus of a reviewed state is `new` exactly when
\* repetitions = 0, `mastered` exactly when repetitions >= 5 and easeFactor >=
\* 2000, and `learning` otherwise; a fresh item (interval 1, easeFactor 2500,
\* repetitions 0) reviewed with quality 4 has interval 1, repetitions 1,
\* easeFactor >= 2500 and status `learning`.
C19_WordStatus ==
    (fn.done /\ fn.res.ok) =>
      /\ fn.status = "new" <=> fn.res.repetitions = 0
      /\ fn.status = "mastered" <=>
           (fn.res.repetitions >= 5 /\ fn.res.easeFactor >= 2000)
      /\ fn.status = "learning" <=>
           (fn.res.repetitions # 0 /\ ~(fn.res.repetitions >= 5 /\ fn.res.easeFactor >= 2000))
      /\ (/\ fn.state.interval = 1 /\ fn.state.easeFactor = 2500
          /\ fn.state.repetitions = 0 /\ fn.quality = 4)
         => (/\ fn.res.interval = 1 /\ fn.res.repetitions = 1
             /\ fn.res.easeFactor >= 2500 /\ fn.status = "learning")

\* C19 witness: the fifth successful review of a state whose ease factor stays
\* at 2000 is classified as mastered.
C19_Witness ==
    /\ fn.done /\ fn.res.ok
    /\ fn.res.repetitions = 5 /\ fn.res.easeFactor = 2000
    /\ fn.status = "mastered"

----------------------------------------------------------------------------
(* calculateMasteryPercentage on its own: two states that agree in repetitions
   or in easeFactor *)

MasteryEaseFactors == {1300, 1317, 1500, 2000, 2500, 3000, 3400}

MasteryStates ==
    [interval : {DefaultInterval}, easeFactor : MasteryEaseFactors,
     repetitions : 0 .. MaxMasteryReps, nextReviewAt : {0}]

InitMastery ==
    /\ InitStore
    /\ mode = Scenario(0, FALSE, {"u1"}, {"p1"}, 0, TRUE)
    /\ \E state \in MasteryStates, other \in MasteryStates :
         /\ state.easeFactor = other.easeFactor \/ state.repetitions = other.repetitions
         /\ fn = [FnIdle EXCEPT !.state = state, !.other = other]

ApplyCalculateMasteryPercentage ==
    /\ ~fn.done
    /\ fn' = [fn EXCEPT !.mastery = calculateMasteryPercentage(fn.state),
                        !.masteryOther = calculateMasteryPercentage(fn.other),
                        !.done = TRUE]
    /\ UNCHANGED <<progress, tasks, now, call, result, ops, lastScored, ctHist, mode, sessions, analytics>>

NextMastery == ApplyCalculateMasteryPercentage

SpecMastery == InitMastery /\ [][NextMastery]_vars

\* C20 (SpecMastery): for states with repetitions >= 0 and easeFactor >= 1300
\* calculateMasteryPercentage is within 0..100, does not decrease when
\* repetitions grows with easeFactor fixed, does not decrease when easeFactor
\* grows with repetitions fixed, and is 100 for {repetitions 10, easeFactor 3000}.
C20_MasteryBoundedMonotone ==
    fn.done =>
      /\ fn.mastery \in 0 .. 100
      /\ (fn.state.easeFactor = fn.other.easeFactor
            /\ fn.state.repetitions <= fn.other.repetitions)
           => fn.mastery <= fn.masteryOther
      /\ (fn.state.repetitions = fn.other.repetitions
            /\ fn.state.easeFactor <= fn.other.easeFactor)
           => fn.mastery <= fn.masteryOther
      /\ (fn.state.repetitions = 10 /\ fn.state.easeFactor = 3000) => fn.mastery = 100

\* C20 witness: {repetitions 10, easeFactor 3000} scores 100, and so does the
\* state with the same repetitions and a larger ease factor.
C20_Witness ==
    /\ fn.done
    /\ fn.state.repetitions = 10 /\ fn.state.easeFactor = 3000 /\ fn.mastery = 100
    /\ fn.other.repetitions = 10 /\ fn.other.easeFactor = 3400 /\ fn.masteryOther = 100

\* C21 (SpecAdaptive): when updateLearningAnalytics writes the analytics of a
\* user with a session in the trailing 30 days, the record then holds
\* learningPace slow if the new avgPhrasesPerDay < 15, fast if > 30, normal
\* otherwise, and optimalDailyLoad equal to the new avgPhrasesPerDay, whether
\* the record was created or updated.
C21_AnalyticsPersisted ==
    [][\A pr \in Procs :
         call[pr].pc = "ua_write" =>
           LET a == analytics'[call[pr].userId]
               avgPhrasesPerDay == call[pr].avg
           IN /\ a.exists
              /\ a.learningPace = IF avgPhrasesPerDay < 15 THEN "slow"
                                  ELSE IF avgPhrasesPerDay > 30 THEN "fast"
                                  ELSE "normal"
              /\ a.optimalDailyLoad = avgPhrasesPerDay]_vars

\* the (pace, load) pair the correct/total ratio of the answers calls for:
\* above 85% fast/30, below 60% slow/10, otherwise normal/20
PaceForRatio(correct, total) ==
    IF total > 0 /\ correct * 100 > 85 * total THEN <<"fast", 30>>
    ELSE IF total = 0 \/ correct * 100 < 60 * total THEN <<"slow", 10>>
    ELSE <<"normal", 20>>

\* C22 (SpecAdaptive): when adjustLearningParameters writes, the user's analytics
\* record then holds the pair for the correct/total ratio of the user's answers
\* of the trailing 7 days (all the answers of the behaviour: the clock stands):
\* fast/30 above 85%, slow/10 below 60%, normal/20 otherwise.
C22_AdjustedPace ==
    [][\A pr \in Procs :
         (call[pr].pc = "al_write" /\ analytics[call[pr].userId].exists) =>
           LET rows == {k \in ProgressIds : progress[k].userId = call[pr].userId}
               correct == SumOver(progress, rows, "correctCount")
               total == correct + SumOver(progress, rows, "incorrectCount")
               a == analytics'[call[pr].userId]
           IN <<a.learningPace, a.optimalDailyLoad>> = PaceForRatio(correct, total)]_vars

----------------------------------------------------------------------------
(* server/learning/adaptiveEngine.ts: generateDailyMissions on its own, for any
   learning profile and any number of words due *)

\* a DailyMission: its type and ten times its targetCount (the review target
\* optimalDailyLoad * 0.6 need not be whole)
Mission(type, targetTenths) == [type |-> type, targetTenths |-> targetTenths]

\* mutant: the conversation mission is offered from 70% on
M_generateDailyMissions(profile, dueCount) ==
    (IF dueCount > 0
     THEN <<Mission("review_words", Min(dueCount * 10, profile.optimalDailyLoad * 6))>>
     ELSE <<>>)
    \o <<Mission("new_words", Max(1, (profile.optimalDailyLoad * 3) \div 10) * 10)>>
    \o (IF profile.averageAccuracy >= 70
        THEN <<Mission("practice_conversation", 10)>> ELSE <<>>)
    \o (IF Len(profile.weakCategories) > 0
        THEN <<Mission("grammar_focus", 50)>> ELSE <<>>)

\* the missions generateDailyMissions builds from the profile that
\* getUserLearningProfile returned and the number of rows of its wordsForReview
\* select
generateDailyMissions(profile, dueCount) ==
    (IF dueCount > 0
     THEN <<Mission("review_words", Min(dueCount * 10, profile.optimalDailyLoad * 6))>>
     ELSE <<>>)
    \o <<Mission("new_words", Max(1, (profile.optimalDailyLoad * 3) \div 10) * 10)>>
    \o (IF profile.averageAccuracy > 70
        THEN <<Mission("practice_conversation", 10)>> ELSE <<>>)
    \o (IF Len(profile.weakCategories) > 0
        THEN <<Mission("grammar_focus", 50)>> ELSE <<>>)

\* optimalDailyLoad of a profile is analytics?.optimalDailyLoad || 20: positive.
\* On these loads load * 0.3 and load * 0.6 compare in floating point as 3 * load
\* / 10 and 6 * load / 10 do.
MissionLoads == {1, 5, 10, 20, 30}

MissionAccuracies == {0, 69, 70, 71, 100}

Profiles ==
    [optimalDailyLoad : MissionLoads, averageAccuracy : MissionAccuracies,
     learningPace : {"slow", "normal", "fast"},
     weakCategories : {<<>>, <<"greetings">>}]

InitMissions ==
    /\ InitStore
    /\ mode = Scenario(0, FALSE, {"u1"}, {"p1"}, 0, TRUE)
    /\ \E profile \in Profiles, dueCount \in 0 .. MaxDueCount :
         fn = [FnIdle EXCEPT !.profile = profile, !.dueCount = dueCount]

ApplyGenerateDailyMissions ==
    /\ ~fn.done
    /\ fn' = [fn EXCEPT !.missions = generateDailyMissions(fn.profile, fn.dueCount),
                        !.done = TRUE]
    /\ UNCHANGED <<progress, tasks, now, call, result, ops, lastScored, ctHist, mode, sessions, analytics>>

NextMissions == ApplyGenerateDailyMissions

SpecMissions == InitMissions /\ [][NextMissions]_vars

\* the missions of type `type` in the list
MissionsOfType(missions, type) ==
    {i \in 1 .. Len(missions) : missions[i].type = type}

C24_LazyCreation ==
    /\ \A pr \in Procs :
         (result[pr].op = "submitReview" /\ result[pr].quality \in 0 .. 5)
           => result[pr].outcome = "success"
    /\ \A userId \in Users, phraseId \in Phrases :
         Cardinality(ProgressOf(userId, phraseId)) <= 1
    /\ \A k \in ProgressIds : lastScored[k].n >= 1

\* C25 (SpecFn): for every progress state recordAnswer computes, for a correct
\* answer, the interval, easeFactor and repetitions of calculateNextReview(state,
\* 5), and for an incorrect answer those of calculateNextReview(state, 2).
C25_RecordAnswerIsSM2 ==
    (fn.done /\ fn.quality \in {2, 5}) =>
      /\ fn.answer.interval = fn.res.interval
      /\ fn.answer.easeFactor = fn.res.easeFactor
      /\ fn.answer.repetitions = fn.res.repetitions

\* C26 (SpecSeq): every persisted progress row has an interval of at least 1
\* day, after any sequence of submitReview, recordAnswer and completeTask calls.
C26_IntervalAtLeastOne ==
    \A k \in ProgressIds : progress[k].interval \in Nat /\ progress[k].interval >= 1

\* C26 witness: a row after its third successful review in a row, whose interval
\* was computed by the rounded product.
C26_Witness ==
    \E k \in ProgressIds :
      /\ progress[k].repetitions >= 3
      /\ lastScored[k].n >= 3
      /\ lastScored[k].via \in {"submitReview", "recordAnswer"}
      /\ progress[k].interval > 3

\* C27 (SpecSeq): completeTask on an item that has a progress record adds 1 to
\* correctCount or to incorrectCount (according to isCorrect) and to
\* repetitions, sets lastReviewedAt, and leaves interval, easeFactor,
\* nextReviewAt and status of the record, and every other record, unchanged.
C27_CompleteTaskFrame ==
    [][\A pr \in Procs :
         (call[pr].pc = "ct_write" /\ call[pr].snap # 0) =>
           LET c == call[pr]
               old == progress[c.snap]
               new == progress'[c.snap]
           IN /\ Len(progress') = Len(progress)
              /\ \A k \in ProgressIds : k # c.snap => progress'[k] = progress[k]
              /\ new.interval = old.interval
              /\ new.easeFactor = old.easeFactor
              /\ new.nextReviewAt = old.nextReviewAt
              /\ new.status = old.status
              /\ new.userId = old.userId /\ new.phraseId = old.phraseId
              /\ new.repetitions = old.repetitions + 1
              /\ new.correctCount = old.correctCount + IF c.isCorrect THEN 1 ELSE 0
              /\ new.incorrectCount = old.incorrectCount + IF c.isCorrect THEN 0 ELSE 1
              /\ new.lastReviewedAt = c.at]_vars

\* C27 witness: a record that a recordAnswer created and on which an incorrect
\* completeTask then wrote: its repetitions went up and its interval and ease
\* factor are those of the creation.
C27_Witness ==
    \E k \in ProgressIds :
      /\ lastScored[k].via = "completeTask"
      /\ lastScored[k].outcome = "failure"
      /\ lastScored[k].n = 2
      /\ progress[k].repetitions = 2
      /\ progress[k].correctCount = 1 /\ progress[k].incorrectCount = 1
      /\ progress[k].easeFactor = 2500 /\ progress[k].interval = 1

\* C28 (SpecTenants): an operation made for one user changes no task and no
\* progress record of another user: a step that changes a task is the update of
\* a completeTask call of the task's owner, and a step that changes a progress
\* record is a step of a call of the record's owner.
C28_OwnRowsOnly ==
    [][/\ \A k \in TaskIds :
            tasks'[k] # tasks[k] =>
              \E pr \in Procs : /\ call[pr].pc = "idle"
                                /\ call'[pr].pc = "ct_read"
                                /\ call'[pr].userId = tasks[k].userId
       /\ \A k \in ProgressIds :
            progress'[k] # progress[k] =>
              \E pr \in Procs : /\ call[pr].pc # "idle"
                                /\ call[pr].userId = progress[k].userId]_vars

\* C29 (SpecSeq): a task is scored at most once: a completeTask call for a task
\* that was already completed changes no progress record (no correctCount,
\* incorrectCount or repetitions).
C29_ScoredOnce ==
    [][\A pr \in Procs :
         (call[pr].pc = "ct_write" /\ call[pr].was = "completed") =>
           progress' = progress]_vars

\* C30 (SpecSeq): the status stored in a progress record is getWordStatus of the
\* repetitions and easeFactor stored in it, after any sequence of submitReview,
\* recordAnswer and completeTask calls.
C30_StatusMatchesState ==
    \A k \in ProgressIds : progress[k].status = getWordStatus(progress[k])

====
